---- MODULE Spec2Model ----
(***************************************************************************)
(* Model of recipes/cpc2/baseline/compute_haspi.py: the resumable HASPI    *)
(* batch-scoring driver (run_calculate_haspi), the results log it appends  *)
(* to, the CEC2 signal-name parser and the per-signal seeding.             *)
(*                                                                         *)
(* Strings are modelled as sequences of one-character strings so that      *)
(* str.split and str.join are computed, not assumed.  A results file is    *)
(* the sequence of its lines, each line being one record; write_jsonl      *)
(* emits a short line in one buffered write that is flushed when the file  *)
(* is closed, so a line is either in the file or not.                      *)
(***************************************************************************)
EXTENDS Integers, Sequences, FiniteSets, TLC

(* ------------------------------ bounds --------------------------------- *)
MaxManifest == 3      \* longest manifest explored
MaxBatches == 2       \* largest n_batches explored
MaxScore == 1         \* haspi scores are quantised to 0..MaxScore
MaxNameLen == 5       \* longest name given to the parser on its own

(* ------------------------------ strings -------------------------------- *)
Alphabet == {"a", "b", "_"}

\* A string is the tuple of its characters.
NamePool ==
  { <<"a", "_", "a", "_", "a">>,                  \* a_a_a
    <<"b", "_", "b", "_", "a", "_", "b">>,        \* b_b_a_b
    <<"a", "_", "b">> }                           \* a_b   (no system tag)

SeqsUpTo(S, n) == UNION { [1..k -> S] : k \in 0..n }

\* str.split("_")
RECURSIVE split(_)
split(s) ==
  IF s = <<>> THEN << <<>> >>
  ELSE LET rest == split(Tail(s)) IN
       IF Head(s) = "_" THEN << <<>> >> \o rest
       ELSE << <<Head(s)>> \o Head(rest) >> \o Tail(rest)

\* "_".join(segments)
RECURSIVE join(_)
join(segs) ==
  IF segs = <<>> THEN <<>>
  ELSE IF Len(segs) = 1 THEN segs[1]
  ELSE segs[1] \o <<"_">> \o join(Tail(segs))

ValueError == [err |-> "ValueError", scene |-> <<>>, listener |-> <<>>, system |-> <<>>]

\* variant: the listener segment is not checked for emptiness
parse_cec2_signal_name_no_listener_check(signal_name) ==
  LET parts == split(signal_name) IN
  IF Len(parts) < 2 THEN ValueError
  ELSE LET scene == parts[1]
           listener == parts[2]
           system == SubSeq(parts, 3, Len(parts))
       IN IF scene = <<>> \/ system = <<>>
          THEN ValueError
          ELSE [err |-> "none", scene |-> scene, listener |-> listener,
                system |-> join(system)]

\* scene, listener, *system = signal_name.split("_"): the unpacking itself
\* raises ValueError when there are fewer than two segments.
parse_cec2_signal_name(signal_name) ==
  LET parts == split(signal_name) IN
  IF Len(parts) < 2 THEN ValueError
  ELSE LET scene == parts[1]
           listener == parts[2]
           system == SubSeq(parts, 3, Len(parts))
       IN IF scene = <<>> \/ listener = <<>> \/ system = <<>>
          THEN ValueError
          ELSE [err |-> "none", scene |-> scene, listener |-> listener,
                system |-> join(system)]

(* ------------------------------ seeding -------------------------------- *)
\* code points of the characters (utf-8 encoding of the seed string)
Ord(c) == CASE c = "a" -> 97 [] c = "b" -> 98 [] c = "_" -> 95

DigestMod == 134217728   \* 2^27, range of the stand-in digest

SeedMod == 100000000     \* 10**8

\* int(hashlib.md5(s).hexdigest(), 16): a digest of the bytes of the string.
\* MD5 itself is library code; a polynomial digest over the same bytes
\* stands in for it (a function of every byte and of their order).
RECURSIVE md5_digest(_, _)
md5_digest(s, h) ==
  IF s = <<>> THEN h
  ELSE md5_digest(Tail(s), (h * 15 + Ord(Head(s))) % DigestMod)

md5_int(seed_string) == md5_digest(seed_string, 7) % SeedMod

\* np.random.seed(k): the generator state is determined by k
np_random_seed(k) == k

\* one draw from the generator moves its state on
np_random_draw(state) == (state * 5 + 1) % SeedMod

\* generator states a fresh process may start in (seeded from OS entropy)
EntropyStates == {11, 23}

set_seed_with_string(seed_string) == np_random_seed(md5_int(seed_string))

(* ---------------------------- the driver ------------------------------- *)
VARIABLES
  manifest,        \* {dataset}.json: sequence of records with a signal field
  n_batches,       \* cfg.compute_haspi.n_batches
  set_random_seed, \* cfg.compute_haspi.set_random_seed
  files,           \* the results files, by batch: sequences of records
  pc,              \* position of the (single) driver process
  batch,           \* cfg.compute_haspi.batch of the current run
  results,         \* records read from the results file at the start
  results_index,   \* signal names of results
  records,         \* work list of the run after filtering and slicing
  idx,             \* position of the for loop in records (1-based)
  haspi,           \* score computed and not yet written
  rng,             \* state of the process-wide generator (0 when no process runs)
  calls,           \* history: names compute_haspi_for_signal was invoked on in this run
  appended,        \* history: records this run has written
  completed,       \* history: batches that have had a run that completed
  succ,            \* history: this run directly follows a completed run of the same batch
  scored,          \* history: names whose score computation returned in this run
  error,           \* the exception that ended the run, "none" if none
  lost,            \* history: scores computed and not written when the run was killed
  pname,           \* parser on its own: the name
  pret             \* parser on its own: the outcome

vars == <<manifest, n_batches, set_random_seed, files, pc, batch, results,
          results_index, records, idx, haspi, rng, calls, appended,
          completed, succ, scored, error, lost, pname, pret>>

cfgvars == <<manifest, n_batches, set_random_seed>>

parsevars == <<pname, pret>>

Signals(recs) == { recs[k].signal : k \in 1..Len(recs) }

\* read_jsonl if the file exists, else []; an absent file is the empty sequence
read_jsonl(file) == file

\* variant: the file is opened in "w" mode, truncating it
write_jsonl_truncating(file, recs) == recs

\* write_jsonl opens in append mode and writes one line per record
write_jsonl(file, recs) == file \o recs

\* variant: the index misses the last record of the file
ResultsIndex_skip_last(res) == Signals(SubSeq(res, 1, Len(res) - 1))

\* {result["signal"]: result for result in results}.keys()
ResultsIndex(res) == Signals(res)

\* variant: the manifest is not filtered
FilterDone_keep_all(recs, index) == recs

\* [record for record in records if record["signal"] not in results_index.keys()]
FilterDone(recs, index) == SelectSeq(recs, LAMBDA r : r.signal \notin index)

\* variant: the slice starts one record late, records[batch :: n_batches]
Slice_from_batch(recs, b, n) ==
  LET count == IF Len(recs) <= b THEN 0
               ELSE (Len(recs) - b + n - 1) \div n
  IN [k \in 1..count |-> recs[b + (k - 1) * n + 1]]

\* records[batch - 1 :: n_batches]
Slice(recs, b, n) ==
  LET count == IF Len(recs) <= b - 1 THEN 0
               ELSE (Len(recs) - (b - 1) + n - 1) \div n
  IN [k \in 1..count |-> recs[(b - 1) + (k - 1) * n + 1]]

\* work list of a run: filter, then slice
WorkList(recs, index, b, n) == Slice(FilterDone(recs, index), b, n)

\* Path(f"{cfg.dataset}.haspi{batch_str}.jsonl"), named by its batch_str
results_file(b, n) == IF n > 1 THEN <<b, n>> ELSE <<>>

ListenerIds == {<<"a">>, <<"b">>}

SampleRates == {16000, 44100}

\* what the file system holds when one score is computed: whether
\* listeners.json exists and which listeners it has, and the sample rate of
\* the processed and of the reference WAV file (0: the file is missing)
Envs ==
  [store : BOOLEAN, listeners : SUBSET ListenerIds,
   fs_proc : SampleRates \cup {0}, fs_ref : SampleRates \cup {0}]

Exceptions == {"ValueError", "FileNotFoundError", "KeyError", "AssertionError"}

\* the exception compute_haspi_for_signal raises, "none" when it returns
compute_haspi_for_signal(signal_name, env) ==
  LET parsed == parse_cec2_signal_name(signal_name) IN
  IF parsed.err # "none" THEN "ValueError"
  ELSE IF ~env.store THEN "FileNotFoundError"
  ELSE IF parsed.listener \notin env.listeners THEN "KeyError"
  ELSE IF env.fs_proc = 0 \/ env.fs_ref = 0 THEN "FileNotFoundError"
  ELSE IF env.fs_ref # env.fs_proc THEN "AssertionError"
  ELSE "none"

Unparsed == [err |-> "unparsed", scene |-> <<>>, listener |-> <<>>, system |-> <<>>]

\* before the first run: the dataset and the configuration are given, no
\* results file exists
Installed ==
  /\ manifest \in SeqsUpTo({ [signal |-> s] : s \in NamePool }, MaxManifest)
  /\ n_batches \in 1..MaxBatches
  /\ set_random_seed \in BOOLEAN
  /\ files = [f \in { results_file(b, n_batches) : b \in 1..n_batches } |-> <<>>]
  /\ pc = "idle"
  /\ results = <<>>
  /\ results_index = {}
  /\ records = <<>>
  /\ idx = 1
  /\ haspi = 0
  /\ rng = 0
  /\ calls = <<>>
  /\ appended = <<>>
  /\ completed = {}
  /\ succ = FALSE
  /\ scored = <<>>
  /\ error = "none"
  /\ lost = 0
  /\ pname = <<>>
  /\ pret = Unparsed

\* the shards are run in any order, each any number of times
Init == Installed /\ batch = 1

Stopped == pc \in {"idle", "done", "failed", "killed", "nomanifest"}

Running == pc \in {"loop", "score", "write"}

signal_name == records[idx].signal

\* lines 96-99: the dataset file is missing, open() raises
StartRunNoManifest(b) ==
  /\ Stopped
  /\ pc' = "nomanifest"
  /\ batch' = b
  /\ error' = "FileNotFoundError"
  /\ results' = <<>>
  /\ results_index' = {}
  /\ records' = <<>>
  /\ idx' = 1
  /\ calls' = <<>>
  /\ appended' = <<>>
  /\ scored' = <<>>
  /\ succ' = FALSE
  /\ rng' = 0
  /\ haspi' = 0
  /\ lost' = 0
  /\ UNCHANGED <<cfgvars, files, completed, parsevars>>

\* lines 96-118: a new process loads the manifest and the results file and
\* builds its work list
StartRun(b) ==
  /\ Stopped
  /\ pc' = "loop"
  /\ batch' = b
  /\ error' = "none"
  /\ results' = read_jsonl(files[results_file(b, n_batches)])
  /\ results_index' = ResultsIndex(results')
  /\ records' = WorkList(manifest, results_index', b, n_batches)
  /\ idx' = 1
  /\ calls' = <<>>
  /\ appended' = <<>>
  /\ scored' = <<>>
  /\ succ' = (pc = "done" /\ batch = b)
  /\ rng' \in EntropyStates
  /\ haspi' = 0
  /\ lost' = 0
  /\ UNCHANGED <<cfgvars, files, completed, parsevars>>

\* variant: the generator is seeded for the first record of the run only
NextRecord_seed_once ==
  /\ pc = "loop"
  /\ idx <= Len(records)
  /\ rng' = IF set_random_seed /\ idx = 1
            THEN set_seed_with_string(records[idx].signal) ELSE rng
  /\ pc' = "score"
  /\ UNCHANGED <<cfgvars, files, batch, results, results_index, records, idx,
                 haspi, calls, appended, completed, succ, scored, error,
                 lost, parsevars>>

\* lines 119-122: the loop takes the next record and reseeds if configured
NextRecord ==
  /\ pc = "loop"
  /\ idx <= Len(records)
  /\ rng' = IF set_random_seed THEN set_seed_with_string(signal_name) ELSE rng
  /\ pc' = "score"
  /\ UNCHANGED <<cfgvars, files, batch, results, results_index, records, idx,
                 haspi, calls, appended, completed, succ, scored, error,
                 lost, parsevars>>

\* line 119: the work list is exhausted, the run returns
Finish ==
  /\ pc = "loop"
  /\ idx > Len(records)
  /\ pc' = "done"
  /\ completed' = completed \cup {batch}
  /\ rng' = 0
  /\ UNCHANGED <<cfgvars, files, batch, results, results_index, records, idx,
                 haspi, calls, appended, succ, scored, error, lost, parsevars>>

\* line 123: compute_haspi_for_signal returns a score
ScoreOk ==
  /\ pc = "score"
  /\ \E env \in Envs : compute_haspi_for_signal(signal_name, env) = "none"
  /\ \E s \in 0..MaxScore : haspi' = s
  /\ rng' = np_random_draw(rng)   \* the library draws from the generator
  /\ calls' = Append(calls, signal_name)
  /\ scored' = Append(scored, signal_name)
  /\ pc' = "write"
  /\ UNCHANGED <<cfgvars, files, batch, results, results_index, records, idx,
                 appended, completed, succ, error, lost, parsevars>>

\* variant: a placeholder record is written for the signal that failed
ScoreFail_writes_placeholder ==
  /\ pc = "score"
  /\ \E e \in Exceptions :
       /\ \E env \in Envs : compute_haspi_for_signal(records[idx].signal, env) = e
       /\ error' = e
  /\ LET f == results_file(batch, n_batches) IN
       files' = [files EXCEPT
                   ![f] = files[f] \o <<[signal |-> records[idx].signal, haspi |-> 0]>>]
  /\ calls' = Append(calls, records[idx].signal)
  /\ pc' = "failed"
  /\ rng' = 0
  /\ UNCHANGED <<cfgvars, batch, results, results_index, records, idx,
                 haspi, appended, completed, succ, scored, lost, parsevars>>

\* line 123: compute_haspi_for_signal raises; nothing catches it
ScoreFail ==
  /\ pc = "score"
  /\ \E e \in Exceptions :
       /\ \E env \in Envs : compute_haspi_for_signal(signal_name, env) = e
       /\ error' = e
  /\ calls' = Append(calls, signal_name)
  /\ pc' = "failed"
  /\ rng' = 0
  /\ UNCHANGED <<cfgvars, files, batch, results, results_index, records, idx,
                 haspi, appended, completed, succ, scored, lost, parsevars>>

\* lines 126-127: the record is appended to the results file
Write ==
  /\ pc = "write"
  /\ LET f == results_file(batch, n_batches)
         result == [signal |-> signal_name, haspi |-> haspi]
     IN /\ files' = [files EXCEPT ![f] = write_jsonl(files[f], <<result>>)]
        /\ appended' = Append(appended, result)
  /\ idx' = idx + 1
  /\ pc' = "loop"
  /\ UNCHANGED <<cfgvars, batch, results, results_index, records, haspi, rng,
                 calls, completed, succ, scored, error, lost, parsevars>>

\* the process is terminated from outside at any point of the run; its
\* memory is gone, the files stay
Kill ==
  /\ Running
  /\ pc' = "killed"
  /\ lost' = Len(scored) - Len(appended)
  /\ results' = <<>>
  /\ results_index' = {}
  /\ records' = <<>>
  /\ idx' = 1
  /\ haspi' = 0
  /\ rng' = 0
  /\ calls' = <<>>
  /\ appended' = <<>>
  /\ scored' = <<>>
  /\ UNCHANGED <<cfgvars, files, batch, completed, succ, error, parsevars>>

Next ==
  \/ \E b \in 1..n_batches : StartRunNoManifest(b)
  \/ \E b \in 1..n_batches : StartRun(b)
  \/ NextRecord
  \/ Finish
  \/ ScoreOk
  \/ ScoreFail
  \/ Write
  \/ Kill

Spec == Init /\ [][Next]_vars

(* --------- repeated runs with the same dataset, batch and n_batches ----- *)
InitSame == Installed /\ batch \in 1..n_batches

NextSame ==
  \/ StartRunNoManifest(batch)
  \/ StartRun(batch)
  \/ NextRecord
  \/ Finish
  \/ ScoreOk
  \/ ScoreFail
  \/ Write
  \/ Kill

SpecSame == InitSame /\ [][NextSame]_vars

(* ----------------------- the parser on its own ------------------------- *)
InitParse ==
  /\ pname \in SeqsUpTo(Alphabet, MaxNameLen)
  /\ pret = Unparsed
  /\ manifest = <<>>
  /\ n_batches = 1
  /\ set_random_seed = FALSE
  /\ files = [f \in {results_file(1, 1)} |-> <<>>]
  /\ pc = "idle"
  /\ batch = 1
  /\ results = <<>>
  /\ results_index = {}
  /\ records = <<>>
  /\ idx = 1
  /\ haspi = 0
  /\ rng = 0
  /\ calls = <<>>
  /\ appended = <<>>
  /\ completed = {}
  /\ succ = FALSE
  /\ scored = <<>>
  /\ error = "none"
  /\ lost = 0

\* lines 40-46: one call of parse_cec2_signal_name
Parse ==
  /\ pret = Unparsed
  /\ pret' = parse_cec2_signal_name(pname)
  /\ UNCHANGED <<cfgvars, files, pc, batch, results, results_index, records,
                 idx, haspi, rng, calls, appended, completed, succ, scored,
                 error, lost, pname>>

NextParse == Parse

SpecParse == InitParse /\ [][NextParse]_vars

(* ------------------------------ properties ----------------------------- *)
IsPrefix(s, t) == Len(s) <= Len(t) /\ s = SubSeq(t, 1, Len(s))

\* the names of a sequence of records are pairwise different
Distinct(recs) ==
  \A i, j \in 1..Len(recs) : recs[i].signal = recs[j].signal => i = j

\* the results file of the current (or last) run
log == files[results_file(batch, n_batches)]

NumUnderscores(s) == Cardinality({ i \in 1..Len(s) : s[i] = "_" })

HasEmptySegment(s) ==
  \/ s = <<>>
  \/ s[1] = "_"
  \/ s[Len(s)] = "_"
  \/ \E i \in 1..(Len(s) - 1) : s[i] = "_" /\ s[i + 1] = "_"

FirstUnderscore(s) ==
  CHOOSE i \in 1..Len(s) : s[i] = "_" /\ \A j \in 1..(i - 1) : s[j] # "_"

EmptySceneOrListener(s) ==
  \/ s = <<>>
  \/ s[1] = "_"
  \/ /\ NumUnderscores(s) >= 1
     /\ FirstUnderscore(s) < Len(s)
     /\ s[FirstUnderscore(s) + 1] = "_"

\* the parser returned the three parts of the name it was given
ReturnsParts ==
  /\ pret.err = "none"
  /\ pret.scene \o <<"_">> \o pret.listener \o <<"_">> \o pret.system = pname
  /\ \A i \in 1..Len(pret.scene) : pret.scene[i] # "_"
  /\ \A i \in 1..Len(pret.listener) : pret.listener[i] # "_"

\* C1: in a run of shard batch of n_batches that completed, a manifest signal
\* with no record in the log at the start is processed if and only if its
\* zero-based manifest index modulo n_batches equals batch - 1 (stated for
\* manifests of distinct names, where a signal has one index).
C1_ShardingRule ==
  (pc = "done" /\ Distinct(manifest)) =>
    \A i \in 1..Len(manifest) :
      manifest[i].signal \notin Signals(results) =>
        (manifest[i].signal \in Signals(appended)
           <=> (i - 1) % n_batches = batch - 1)

\* C2: for a manifest of distinct names, no signal name has records in the
\* files of two different shards, and once every shard has had a run that
\* completed each manifest signal has a record in the file of exactly one shard.
C2_ExactlyOnce ==
  Distinct(manifest) =>
    /\ \A b1, b2 \in 1..n_batches :
         b1 # b2 =>
           Signals(files[results_file(b1, n_batches)])
             \cap Signals(files[results_file(b2, n_batches)]) = {}
    /\ completed = 1..n_batches =>
         \A s \in Signals(manifest) :
           Cardinality({ b \in 1..n_batches :
                           s \in Signals(files[results_file(b, n_batches)]) }) = 1

C4_IdempotentRerun ==
  (pc = "done" /\ succ) =>
    /\ calls = <<>>
    /\ appended = <<>>
    /\ log = results
    /\ Distinct(log)

\* C5: a run never invokes compute_haspi_for_signal on, and never appends a
\* record for, a signal name that had a record in the results log when the
\* run started.
C5_SkipLogged ==
  /\ \A k \in 1..Len(calls) : calls[k] \notin Signals(results)
  /\ \A k \in 1..Len(appended) : appended[k].signal \notin Signals(results)
  /\ pc = "score" => records[idx].signal \notin Signals(results)

C5_Witness ==
  /\ pc = "done"
  /\ Signals(results) \cap Signals(manifest) # {}
  /\ appended # <<>>

\* what C6 says of a state: the log is the log of the start followed by the
\* records of this run, one per computed score and in the order of the
\* computations, at most the last computed score has no record yet, and no
\* computation begins while a computed score is unwritten
C6_State ==
  /\ lost \in {0, 1}
  /\ Running \/ pc \in {"done", "failed"} =>
       /\ log = results \o appended
       /\ Len(scored) - Len(appended) \in {0, 1}
       /\ \A k \in 1..Len(appended) : appended[k].signal = scored[k]
  /\ pc = "score" => Len(scored) = Len(appended)

\* C6: every step leaves each results file a prefix of what it becomes (no
\* record removed, reordered or altered), each computed score is appended
\* (exactly one record) before the next computation begins, and at any
\* point at most the single in-flight score has no record.
C6_CrashDurability ==
  [][ /\ \A f \in DOMAIN files : IsPrefix(files[f], files'[f])
      /\ C6_State' ]_vars

C6_Witness ==
  /\ pc = "killed"
  /\ lost = 1
  /\ Len(log) >= 2

\* C7 as stated: the parser fails exactly on the names with fewer than
\* three segments or with an empty segment in any position, and returns
\* the parts of every other name.
C7_FailsOnAnyEmptySegment ==
  pret # Unparsed =>
    IF NumUnderscores(pname) < 2 \/ HasEmptySegment(pname)
    THEN pret = ValueError
    ELSE ReturnsParts

\* C7 amended: the parser fails with ValueError exactly on the names with
\* fewer than three segments or with an empty scene or listener segment; for
\* every other name, empty system segments included, it returns the scene,
\* the listener and the remaining segments rejoined by underscores.
C7_FailsOnEmptySceneOrListener ==
  pret # Unparsed =>
    IF NumUnderscores(pname) < 2 \/ EmptySceneOrListener(pname)
    THEN pret = ValueError
    ELSE ReturnsParts

C7_Witness ==
  /\ pret.err = "none"
  /\ pname[Len(pname)] = "_"
  /\ pret.system = <<>>

\* what C8 says of a run that failed: the log is the log of the start
\* followed by one record for each signal of the work list before the
\* failing one, and none for the failing one or a later one
C8_Failed ==
  pc = "failed" =>
    /\ error # "none"
    /\ idx <= Len(records)
    /\ calls[Len(calls)] = records[idx].signal
    /\ Len(appended) = idx - 1
    /\ \A k \in 1..Len(appended) : appended[k].signal = records[k].signal
    /\ log = results \o appended

C9_SeededPerSignal ==
  (pc = "score" /\ set_random_seed) =>
    /\ rng = np_random_seed(md5_int(records[idx].signal))
    /\ rng >= 0
    /\ rng \div 65536 < 65536

C9_Witness ==
  /\ pc = "score"
  /\ set_random_seed
  /\ idx >= 2
  /\ results # <<>>

\* C10: with n_batches = 1, when a run completes every manifest signal has
\* a record in the results log, and every record the run appended is for a
\* manifest signal that had no record at the start.
C10_UnshardedComplete ==
  (n_batches = 1 /\ pc = "done") =>
    /\ Signals(manifest) \subseteq Signals(log)
    /\ \A k \in 1..Len(appended) :
         appended[k].signal \in Signals(manifest) \ Signals(results)

C10_Witness ==
  /\ n_batches = 1
  /\ pc = "done"
  /\ Len(manifest) >= 2
  /\ results # <<>>
  /\ appended # <<>>

====
